---- MODULE Spec2Model ----
(***************************************************************************)
(* Medical assistant of Community Health Center Harichandanpur.            *)
(*                                                                         *)
(* The model covers the conversation / tool-dispatch loop built in         *)
(* agent.py (assistant node -> tools_condition -> ToolNode -> assistant,   *)
(* compiled with a MemorySaver checkpointer), the assistant node of        *)
(* utils/nodes.py, the six tools of utils/tools.py, the HTTP endpoints of  *)
(* main.py and the read-eval-print loop of agent.py (Spec); the two        *)
(* appointment tools are also run by themselves against the tables that    *)
(* setup_database.py writes (ToolSpec).                                    *)
(*                                                                         *)
(* A text is a sequence of tokens (strings); a message is a record         *)
(* [role, content, tool_calls, tool_call_id, origin] where origin is a     *)
(* history field naming the thread whose exchange created the message.     *)
(***************************************************************************)
EXTENDS Integers, Sequences, FiniteSets, TLC

\* ---------------------------------------------------------------- bounds
MaxExchanges == 2
MaxCalls == 2
ToolsCallIds == 1
MultiCallIds == 3
FanoutCallIds == 3
DeepCallIds == 14

\* ------------------------------------------------------ program constants
\* agent_executor.invoke is called with a config that holds only thread_id,
\* so the graph runs under the orchestration library's default
\* recursion_limit: at most 25 node supersteps per invoke.
RecursionLimit == 25

Threads == {"default", "t2"}
CliThread == "main_conversation"
AllThreads == Threads \cup {CliThread}

QuitWords == {"quit", "exit", "bye"}
ModelErrors == {"E1", "E2"}
RecursionErrorText == "Recursion limit of 25 reached without hitting a stop condition."

REGISTERED == <<"search_hospital_policies", "get_current_datetime", "get_owner_info",
                "get_doctor_appointments", "get_todays_appointments", "get_available_doctors">>
ToolNames == {REGISTERED[i] : i \in 1..Len(REGISTERED)}
RequestedNames == ToolNames \cup {"unknown_tool"}
Outcomes == {"rows", "empty", "raise"}

VARIABLES
    mode,            \* which entry point runs: "api" (main.py) or "cli" (agent.py __main__)
    scenario,        \* bound on the environment: "tools" (any tool, one call per message, one thread),
                     \* "multi" (one tool, one call per message, two threads, either entry point),
                     \* "fanout" (one tool, several calls per message, one thread)
                     \* or "deep" (one tool, one call per message, many rounds, one thread)
    alive,           \* the process is running
    agent_executor,  \* "None" or "ready"
    vector_store,    \* utils/tools.py module global: "None" or "ok"
    sql_db,          \* utils/tools.py module global: "None" or "ok"
    store,           \* MemorySaver: thread_id -> message log
    loop_state,      \* state of the latest exchange
    req,             \* the request of the latest exchange; waited is a history field: the
                     \* request was accepted while another handler was running
    steps,           \* node supersteps executed by the current invoke
    response,        \* value returned by run_agent for the latest exchange
    exc,             \* exception raised inside the latest invoke, if any
    http,            \* latest HTTP request/response pair
    cli_out,         \* latest line printed by the CLI loop
    llm_input,       \* message list of the latest llm_with_tools.invoke
    nextId,          \* tool call ids handed out so far
    exchanges,       \* exchanges started so far
    turns,           \* history: per thread, exchanges that ended DONE
    clean,           \* history: per thread, every exchange so far ended DONE without a tool call
    len0,            \* history: length of the thread's log when the latest exchange began
    queued,          \* POST /chat request accepted while the event loop is busy, not yet handled
    pool,            \* ToolNode's executor: per tool call of the message being executed,
                     \* "pending", "running" or "done"
    today,           \* datetime.now() as days since setup_database.py wrote hospital.db
    tool_call,       \* latest direct call of an appointment tool, and the day it was made
    tool_result      \* what that call returned: the text, and the rows listed in it

vars == <<mode, scenario, alive, agent_executor, vector_store, sql_db, store, loop_state,
          req, steps, response, exc, http, cli_out, llm_input, nextId, exchanges,
          turns, clean, len0, queued, pool, today, tool_call, tool_result>>

agent_vars == <<mode, scenario, alive, agent_executor, vector_store, sql_db, store, loop_state,
                req, steps, response, exc, http, cli_out, llm_input, nextId, exchanges,
                turns, clean, len0, queued, pool>>

db_vars == <<today, tool_call, tool_result>>

\* ---------------------------------------------------------------- texts
RECURSIVE LStrip(_)
LStrip(s) == IF s = <<>> THEN <<>> ELSE IF Head(s) = " " THEN LStrip(Tail(s)) ELSE s

RECURSIVE RStrip(_)
RStrip(s) == IF s = <<>> THEN <<>>
             ELSE IF s[Len(s)] = " " THEN RStrip(SubSeq(s, 1, Len(s) - 1)) ELSE s

Strip(s) == RStrip(LStrip(s))

LowerTok(c) == IF c = "QUIT" THEN "quit" ELSE c

Lower(s) == [i \in 1..Len(s) |-> LowerTok(s[i])]

Contains(text, tok) == \E i \in 1..Len(text) : text[i] = tok

IsPrefix(s, t) == Len(s) <= Len(t) /\ SubSeq(t, 1, Len(s)) = s

Last(log) == log[Len(log)]

\* ------------------------------------------------------------- messages
Msg(role, content, calls, id, t) ==
    [role |-> role, content |-> content, tool_calls |-> calls, tool_call_id |-> id, origin |-> t]

SystemMessage == Msg("system", <<"You are a helpful medical assistant">>, <<>>, 0, "none")

HumanMessage(content, t) == Msg("user", content, <<>>, 0, t)

AIMessage(content, calls, t) == Msg("assistant", content, calls, 0, t)

ToolMessage(content, id, t) == Msg("tool_result", content, <<>>, id, t)

\* utils/state.py (State.messages with its reducer): a node's update is appended to the log
add_messages(log, update) == log \o update

\* ------------------------------------------------------------- hospital.db
\* setup_database.py: the doctors table, doctor_id -> doctor_name
Doctors == <<(<<"Dr.", " ", "Harshin">>), (<<"Dr.", " ", "Priya", " ", "Sharma">>)>>

\* setup_database.py: the appointments table; date counts days from the day the
\* script ran
Appointments ==
    {[doctor_id |-> 1, date |-> 0, token |-> k] : k \in 1..5}
    \cup {[doctor_id |-> 1, date |-> 1, token |-> k] : k \in 6..7}
    \cup {[doctor_id |-> 2, date |-> 0, token |-> k] : k \in 1..4}
    \cup {[doctor_id |-> 2, date |-> 2, token |-> 5]}

\* FROM appointments a JOIN doctors d ON a.doctor_id = d.doctor_id
Joined ==
    {[doctor_id |-> a.doctor_id, doctor_name |-> Doctors[a.doctor_id], date |-> a.date,
      token |-> a.token] : a \in Appointments}

\* the f-string puts the name between '% and %': a doubled quote stands for one
\* quote inside the literal, a single one ends the literal and the statement no
\* longer parses
RECURSIVE QuotesPaired(_)
QuotesPaired(s) ==
    IF s = <<>> THEN TRUE
    ELSE IF Head(s) # "'" THEN QuotesPaired(Tail(s))
    ELSE Len(s) >= 2 /\ s[2] = "'" /\ QuotesPaired(Tail(Tail(s)))

RECURSIVE Unquote(_)
Unquote(s) ==
    IF s = <<>> THEN <<>>
    ELSE IF Head(s) # "'" THEN <<Head(s)>> \o Unquote(Tail(s))
    ELSE <<"'">> \o Unquote(Tail(Tail(s)))

\* SQLite LIKE compares ASCII letters without regard to case
LikeFold(tok) ==
    IF tok = "Harshin" THEN "harshin"
    ELSE IF tok = "Priya" THEN "priya"
    ELSE IF tok = "Sharma" THEN "sharma"
    ELSE IF tok = "Dr." THEN "dr."
    ELSE tok

\* SQLite LIKE: % in the pattern matches any run of the text
RECURSIVE Like(_, _)
Like(text, pattern) ==
    IF pattern = <<>> THEN text = <<>>
    ELSE IF Head(pattern) = "%"
         THEN Like(text, Tail(pattern)) \/ (text # <<>> /\ Like(Tail(text), pattern))
    ELSE /\ text # <<>>
         /\ LikeFold(Head(text)) = LikeFold(Head(pattern))
         /\ Like(Tail(text), Tail(pattern))

\* WHERE d.doctor_name LIKE '%{doctor_name}%'
NameFilter(rows, name) == {r \in rows : Like(r.doctor_name, <<"%">> \o Unquote(name) \o <<"%">>)}

\* WHERE a.appointment_date = '{today}'
DateFilter(rows, day) == {r \in rows : r.date = day}

\* ORDER BY: every listing of the rows in which the keys never decrease (rows
\* with equal keys come in an order the engine chooses)
RECURSIVE OrderBy(_, _)
OrderBy(rows, key) ==
    IF rows = {} THEN {<<>>}
    ELSE UNION {{<<r>> \o q : q \in OrderBy(rows \ {r}, key)} :
                  r \in {x \in rows : \A y \in rows : key[x] <= key[y]}}

ByDateToken == [r \in Joined |-> r.date * 10 + r.token]

ByToken == [r \in Joined |-> r.token]

ByDoctorToken == [r \in Joined |-> r.doctor_id * 10 + r.token]

\* sql_db.run(query): it raises when the statement does not parse, else it
\* returns one of the listings
Run(parses, listings) ==
    IF parses THEN {[raised |-> FALSE, rows |-> q] : q \in listings}
    ELSE {[raised |-> TRUE, rows |-> <<>>]}

\* sql_db.run(query) of get_doctor_appointments
DoctorQuery(name) ==
    Run(QuotesPaired(Strip(name)), OrderBy(NameFilter(Joined, Strip(name)), ByDateToken))

\* sql_db.run(query) of get_todays_appointments
TodayQuery(name, day) ==
    IF Strip(name) = <<>> THEN Run(TRUE, OrderBy(DateFilter(Joined, day), ByDoctorToken))
    ELSE Run(QuotesPaired(Strip(name)),
             OrderBy(NameFilter(DateFilter(Joined, day), Strip(name)), ByToken))

\* what the tool sees of a query result
OutcomeOf(result) ==
    IF result.raised THEN "raise" ELSE IF result.rows = <<>> THEN "empty" ELSE "rows"

\* ---------------------------------------------------------------- tools
search_hospital_policies_noexcept(vs, o) ==
    IF vs = "None" THEN <<"Error: Hospital policies database is not available.">>
    ELSE IF o = "raise" THEN <<"RAISE">>
    ELSE IF o = "empty" THEN <<"No relevant hospital policies found for your query.">>
    ELSE <<"Hospital Policies Information:", "docs">>

search_hospital_policies(vs, o) ==
    IF vs = "None" THEN <<"Error: Hospital policies database is not available.">>
    ELSE IF o = "raise" THEN <<"Error searching hospital policies: ", "exception">>
    ELSE IF o = "empty" THEN <<"No relevant hospital policies found for your query.">>
    ELSE <<"Hospital Policies Information:", "docs">>

get_current_datetime == <<"Current date and time: ", "now">>

get_owner_info == <<"Hospital Owner Information:", "Dr. Hari">>

get_doctor_appointments(db, name, o) ==
    IF db = "None" THEN <<"Error: Appointment database is not available.">>
    ELSE IF o = "raise" THEN <<"Error retrieving appointments: ", "exception">>
    ELSE IF o = "empty" THEN <<"No appointments found for doctor: ", Strip(name)>>
    ELSE <<"Appointments for ", Strip(name), "rows">>

get_todays_appointments(db, name, o) ==
    IF db = "None" THEN <<"Error: Appointment database is not available.">>
    ELSE IF o = "raise" THEN <<"Error retrieving today's appointments: ", "exception">>
    ELSE IF o = "empty" THEN <<"No appointments scheduled for today">>
    ELSE IF Strip(name) # <<>> THEN <<"Today's Appointments for ", name, "rows">>
    ELSE <<"Today's Appointments for All Doctors", "rows">>

get_available_doctors(db, o) ==
    IF db = "None" THEN <<"Error: Appointment database is not available.">>
    ELSE IF o = "raise" THEN <<"Error retrieving doctor information: ", "exception">>
    ELSE IF o = "empty" THEN <<"No doctor information available.">>
    ELSE <<"Available Doctors at Community Health Center:", "rows">>

\* ToolNode(TOOLS) applied to one tool call; o is what the external oracle
\* (vector index, SQL engine) does for this call
RunTool(call, o) ==
    IF call.name = "search_hospital_policies" THEN search_hospital_policies(vector_store, o)
    ELSE IF call.name = "get_current_datetime" THEN get_current_datetime
    ELSE IF call.name = "get_owner_info" THEN get_owner_info
    ELSE IF call.name = "get_doctor_appointments" THEN get_doctor_appointments(sql_db, call.args, o)
    ELSE IF call.name = "get_todays_appointments" THEN get_todays_appointments(sql_db, call.args, o)
    ELSE IF call.name = "get_available_doctors" THEN get_available_doctors(sql_db, o)
    ELSE <<"Error: ", call.name, " is not a valid tool, try one of ", "TOOLS">>

Raised(text) == text = <<"RAISE">>

ErrorTexts == {<<"Error: Hospital policies database is not available.">>,
               <<"Error searching hospital policies: ", "exception">>,
               <<"Error: Appointment database is not available.">>,
               <<"Error retrieving appointments: ", "exception">>,
               <<"Error retrieving today's appointments: ", "exception">>,
               <<"Error retrieving doctor information: ", "exception">>,
               <<"Error: ", "unknown_tool", " is not a valid tool, try one of ", "TOOLS">>}

\* --------------------------------------------------------------- the graph
\* utils/nodes.py assistant: the list handed to the model
AssistantInputAsStored(messages) == messages

AssistantInput(messages) ==
    IF \E i \in 1..Len(messages) : messages[i].role = "system"
    THEN messages
    ELSE <<SystemMessage>> \o messages

\* utils/nodes.py assistant: the state update it returns
AssistantUpdateWithSystem(messages, ai) ==
    IF \E i \in 1..Len(messages) : messages[i].role = "system"
    THEN <<ai>>
    ELSE <<SystemMessage, ai>>

AssistantUpdate(messages, ai) == <<ai>>

\* langgraph.prebuilt.tools_condition on the latest message
tools_condition_end(ai) == "END"

tools_condition(ai) == IF ai.tool_calls # <<>> THEN "tools" ELSE "END"

\* graph.compile(checkpointer=memory): invoke starts from the thread's checkpoint
LoadCheckpointNone(t) == <<>>

LoadCheckpointShared(t) == store["default"]

LoadCheckpoint(t) == store[t]

SaveCheckpoint(t, log) == [store EXCEPT ![t] = log]

\* invoke raises GraphRecursionError when a further superstep is needed after
\* RecursionLimit of them
OutOfStepsNever(s) == FALSE

OutOfSteps(s) == s >= RecursionLimit

\* run_agent: the value returned to the caller
Apology(e) == <<"I apologize, but I encountered an error: ", e,
                ". Please try asking your question again.">>

\* main.py health_check, chat_with_assistant: if agent_executor is None
NotInitializedNever(ae) == FALSE

NotInitialized(ae) == ae = "None"

\* main.py chat_with_assistant: input validation
IsEmptyMessageNoStrip(m) == m = <<>>

IsEmptyMessage(m) == m = <<>> \/ Strip(m) = <<>>

HttpError(endpoint, m, t, code, detail) ==
    [endpoint |-> endpoint, message |-> m, thread_id |-> t, code |-> code,
     status |-> "error", body |-> <<detail>>]

\* main.py chat_with_assistant: the response built after run_agent returned
ChatResponse(r, text) ==
    [endpoint |-> "chat", message |-> r.message, thread_id |-> r.thread_id, code |-> 200,
     status |-> "success", body |-> text]

NoHttp == [endpoint |-> "none", message |-> <<>>, thread_id |-> "none", code |-> 0,
           status |-> "none", body |-> <<>>]

NoReq == [via |-> "none", message |-> <<>>, thread_id |-> "none", waited |-> FALSE]

NoExc == [kind |-> "none", text |-> "none"]

NoCall == [id |-> 0, name |-> "none", args |-> <<>>, day |-> 0]

NoResult == [text |-> <<>>, rows |-> <<>>]

InFlight == loop_state \in {"AWAITING_MODEL", "EXECUTING_TOOLS"}

\* main.py: the handlers are coroutines of one event loop and chat_with_assistant
\* calls run_agent without awaiting anything, so no handler starts before the
\* running one has returned
EventLoopFreeAlways == TRUE

EventLoopFree == ~InFlight

CallIdCap ==
    IF scenario = "deep" THEN DeepCallIds
    ELSE IF scenario = "multi" THEN MultiCallIds
    ELSE IF scenario = "fanout" THEN FanoutCallIds ELSE ToolsCallIds

Init ==
    /\ mode \in {"api", "cli"}
    /\ scenario \in {"tools", "multi", "fanout", "deep"}
    /\ scenario # "multi" => mode = "api"
    /\ alive = TRUE
    /\ agent_executor = "None"
    /\ vector_store \in {"None", "ok"}
    /\ sql_db = vector_store
    /\ scenario # "tools" => vector_store = "ok"
    /\ store = [t \in AllThreads |-> <<>>]
    /\ loop_state = "IDLE"
    /\ req = NoReq
    /\ steps = 0
    /\ response = <<>>
    /\ exc = NoExc
    /\ http = NoHttp
    /\ cli_out = <<>>
    /\ llm_input = <<>>
    /\ nextId = 0
    /\ exchanges = 0
    /\ turns = [t \in AllThreads |-> 0]
    /\ clean = [t \in AllThreads |-> TRUE]
    /\ len0 = 0
    /\ queued = NoReq
    /\ pool = <<>>
    /\ today = 0
    /\ tool_call = NoCall
    /\ tool_result = NoResult

\* ------------------------------------------------------------ the oracle
\* what the model may ask for, bounded per scenario
NamesFor(sc) == IF sc = "tools" THEN RequestedNames ELSE {"get_current_datetime"}

ArgsOf(name) ==
    IF name = "get_doctor_appointments" THEN {<<"Harshin">>}
    ELSE IF name = "get_todays_appointments" THEN {<<>>, <<"Harshin">>}
    ELSE {<<>>}

ToolRequests(sc) == UNION {{[name |-> nm, args |-> a] : a \in ArgsOf(nm)} : nm \in NamesFor(sc)}

CallCounts(sc) == IF sc = "fanout" THEN 1..MaxCalls ELSE {1}

ErrorsFor(sc) == IF sc = "multi" THEN ModelErrors ELSE {"E1"}

ApiMessages == {<<>>, <<" ">>, <<"a">>, <<" ", "a", " ">>}

MessagesFor(sc) == IF sc = "multi" THEN ApiMessages ELSE {<<"a">>, <<" ">>}

ThreadsFor(sc) == IF sc = "multi" THEN Threads ELSE {"default"}

CliLines == {<<>>, <<" ">>, <<"a">>, <<" ", "a">>} \cup {<<w>> : w \in QuitWords \cup {"QUIT"}}

\* --------------------------------------------------------------- run_agent
\* run_agent: try: return result["messages"][-1].content
\*            except Exception as e: return the apology that embeds str(e)
run_agent(ok, value) ==
    [raised |-> FALSE, value |-> IF ok THEN value ELSE Apology(value)]

\* main.py chat_with_assistant: try: ChatResponse(...) except: HTTPException(500)
ChatResult(r, ret) ==
    IF ret.raised
    THEN HttpError("chat", r.message, r.thread_id, 500,
                   "I apologize, but I encountered an error processing your request. Please try again.")
    ELSE ChatResponse(r, ret.value)

\* the exchange ends: invoke returned (ok) or raised (~ok); run_agent hands its
\* value to the caller, which answers the HTTP request or prints the line
Finish(ok, value, kind, newStore) ==
    LET t == req.thread_id
        ret == run_agent(ok, value)
    IN /\ loop_state' = IF ok THEN "DONE" ELSE "FAILED"
       /\ exc' = IF ok THEN NoExc ELSE [kind |-> kind, text |-> value]
       /\ response' = ret.value
       /\ store' = newStore
       /\ http' = IF req.via = "api" THEN ChatResult(req, ret) ELSE http
       /\ cli_out' = IF req.via = "cli" THEN <<"Assistant: ">> \o ret.value ELSE cli_out
       /\ turns' = IF ok THEN [turns EXCEPT ![t] = @ + 1] ELSE turns
       /\ clean' = [clean EXCEPT ![t] = @ /\ ok /\ steps' = 1]

\* agent_executor.invoke({"messages": [HumanMessage(content=user_input)]}, config):
\* the thread's checkpoint is loaded, the input is appended and saved, and the
\* entry point (assistant) is scheduled
Begin(via, m, content, t) ==
    /\ exchanges < MaxExchanges
    /\ exchanges' = exchanges + 1
    /\ req' = [via |-> via, message |-> m, thread_id |-> t, waited |-> queued # NoReq]
    /\ len0' = Len(store[t])
    /\ store' = SaveCheckpoint(t, add_messages(LoadCheckpoint(t), <<HumanMessage(content, t)>>))
    /\ loop_state' = "AWAITING_MODEL"
    /\ steps' = 0
    /\ exc' = NoExc
    /\ response' = <<>>

\* ----------------------------------------------------------------- actions
\* main.py lifespan / agent.py __main__: agent_executor = create_agent()
Startup ==
    /\ alive /\ agent_executor = "None" /\ ~InFlight
    /\ \/ agent_executor' = "ready" /\ alive' = alive
       \/ agent_executor' = "None" /\ alive' = FALSE
    /\ UNCHANGED <<mode, scenario, vector_store, sql_db, store, loop_state, req, steps,
                   response, exc, http, cli_out, llm_input, nextId, exchanges, turns,
                   clean, len0, queued>>
    /\ UNCHANGED db_vars
    /\ UNCHANGED pool

\* a client posts to /chat while a handler is running: the server accepts the
\* request and its handler is scheduled on the event loop
SubmitWhileBusy(m, t) ==
    /\ mode = "api" /\ alive /\ InFlight
    /\ queued = NoReq /\ exchanges < MaxExchanges
    /\ queued' = [via |-> "api", message |-> m, thread_id |-> t, waited |-> TRUE]
    /\ UNCHANGED <<mode, scenario, alive, agent_executor, vector_store, sql_db, store,
                   loop_state, req, steps, response, exc, http, cli_out, llm_input, nextId,
                   exchanges, turns, clean, len0>>
    /\ UNCHANGED db_vars
    /\ UNCHANGED pool

\* GET /health
HealthCheck ==
    /\ mode = "api" /\ alive /\ EventLoopFree
    /\ http' = IF NotInitialized(agent_executor)
               THEN HttpError("health", <<>>, "none", 503, "Agent not initialized")
               ELSE [endpoint |-> "health", message |-> <<>>, thread_id |-> "none",
                     code |-> 200, status |-> "healthy",
                     body |-> <<"Medical Assistant is running and ready to help!">>]
    /\ UNCHANGED <<mode, scenario, alive, agent_executor, vector_store, sql_db, store,
                   loop_state, req, steps, response, exc, cli_out, llm_input, nextId,
                   exchanges, turns, clean, len0, queued>>
    /\ UNCHANGED db_vars
    /\ UNCHANGED pool

\* POST /chat up to the call of agent_executor.invoke
ChatRequest(m, t) ==
    /\ mode = "api" /\ alive /\ EventLoopFree
    /\ queued # NoReq => (m = queued.message /\ t = queued.thread_id)
    /\ queued' = NoReq
    /\ IF NotInitialized(agent_executor)
       THEN /\ http' = HttpError("chat", m, t, 503,
                                 "Medical Assistant is not available. Please try again later.")
            /\ UNCHANGED <<store, loop_state, req, steps, response, exc, exchanges, len0>>
       ELSE IF IsEmptyMessage(m)
       THEN /\ http' = HttpError("chat", m, t, 400, "Message cannot be empty")
            /\ UNCHANGED <<store, loop_state, req, steps, response, exc, exchanges, len0>>
       ELSE /\ Begin("api", m, Strip(m), t)
            /\ UNCHANGED http
    /\ UNCHANGED <<mode, scenario, alive, agent_executor, vector_store, sql_db, cli_out,
                   llm_input, nextId, turns, clean>>
    /\ UNCHANGED db_vars
    /\ UNCHANGED pool

\* agent.py __main__: if user_input.lower() in ['quit', 'exit', 'bye']
IsQuitExact(line) == line \in {<<w>> : w \in QuitWords}

IsQuit(line) == Lower(line) \in {<<w>> : w \in QuitWords}

\* agent.py __main__: one pass of the while loop
CliLine(line) ==
    /\ mode = "cli" /\ alive /\ agent_executor = "ready" /\ ~InFlight
    /\ IF IsQuit(line)
       THEN /\ cli_out' = <<"Thank you for using our medical assistant. Take care!">>
            /\ alive' = FALSE
            /\ UNCHANGED <<store, loop_state, req, steps, response, exc, exchanges, len0>>
       ELSE IF Strip(line) # <<>>
       THEN /\ Begin("cli", line, line, CliThread)
            /\ UNCHANGED <<cli_out, alive>>
       ELSE /\ cli_out' = <<"Please enter a question or type 'quit' to exit.">>
            /\ UNCHANGED <<alive, store, loop_state, req, steps, response, exc, exchanges, len0>>
    /\ UNCHANGED <<mode, scenario, agent_executor, vector_store, sql_db, http, llm_input,
                   nextId, turns, clean, queued>>
    /\ UNCHANGED db_vars
    /\ UNCHANGED pool

\* the assistant node followed by the conditional edge
AssistantStep ==
    /\ loop_state = "AWAITING_MODEL"
    /\ LET t == req.thread_id
           messages == store[t]
       IN /\ llm_input' = AssistantInput(messages)
          /\ \/ \E e \in ErrorsFor(scenario) :
                  /\ Finish(FALSE, e, "model", store)
                  /\ UNCHANGED <<steps, nextId>>
             \/ \E n \in {0} \cup CallCounts(scenario) :
                \E wanted \in [1..n -> ToolRequests(scenario)] :
                  LET calls == [i \in 1..n |-> [id |-> nextId + i, name |-> wanted[i].name,
                                                args |-> wanted[i].args]]
                      ai == AIMessage(IF n = 0 THEN <<"answer">> ELSE <<>>, calls, t)
                      log == add_messages(messages, AssistantUpdate(messages, ai))
                      last == log[Len(log)]
                  IN /\ nextId + n <= CallIdCap
                     /\ nextId' = nextId + n
                     /\ steps' = steps + 1
                     /\ IF tools_condition(last) = "END"
                        THEN Finish(TRUE, last.content, "none", SaveCheckpoint(t, log))
                        ELSE IF OutOfSteps(steps')
                        THEN Finish(FALSE, RecursionErrorText, "budget", SaveCheckpoint(t, log))
                        ELSE /\ store' = SaveCheckpoint(t, log)
                             /\ loop_state' = "EXECUTING_TOOLS"
                             /\ UNCHANGED <<response, exc, http, cli_out, turns, clean>>
    /\ UNCHANGED <<mode, scenario, alive, agent_executor, vector_store, sql_db, req,
                   exchanges, len0, queued, pool>>
    /\ UNCHANGED db_vars

\* ToolNode(TOOLS) hands the tool calls of the message to an executor with
\* executor.map: every call is submitted at once and each runs on a thread of its
\* own; an empty pool stands for "all pending". The run of a message's only
\* call is part of ToolsStep.
PoolStatus(i) == IF pool = <<>> THEN "pending" ELSE pool[i]

PoolSet(i, status) ==
    [j \in 1..Len(Last(store[req.thread_id]).tool_calls) |->
        IF j = i THEN status ELSE PoolStatus(j)]

\* a thread of the executor takes up call i
StartCall(i) ==
    /\ loop_state = "EXECUTING_TOOLS"
    /\ Len(Last(store[req.thread_id]).tool_calls) > 1
    /\ i \in 1..Len(Last(store[req.thread_id]).tool_calls)
    /\ PoolStatus(i) = "pending"
    /\ pool' = PoolSet(i, "running")
    /\ UNCHANGED <<mode, scenario, alive, agent_executor, vector_store, sql_db, store,
                   loop_state, req, steps, response, exc, http, cli_out, llm_input, nextId,
                   exchanges, turns, clean, len0, queued>>
    /\ UNCHANGED db_vars

\* the tool function of call i returns
FinishCall(i) ==
    /\ loop_state = "EXECUTING_TOOLS"
    /\ i \in 1..Len(pool)
    /\ PoolStatus(i) = "running"
    /\ pool' = PoolSet(i, "done")
    /\ UNCHANGED <<mode, scenario, alive, agent_executor, vector_store, sql_db, store,
                   loop_state, req, steps, response, exc, http, cli_out, llm_input, nextId,
                   exchanges, turns, clean, len0, queued>>
    /\ UNCHANGED db_vars

\* the ToolNode collects the outputs of executor.map in the order of the calls,
\* followed by the edge back to assistant
ToolsStep ==
    /\ loop_state = "EXECUTING_TOOLS"
    /\ \/ Len(Last(store[req.thread_id]).tool_calls) = 1
       \/ \A i \in 1..Len(Last(store[req.thread_id]).tool_calls) : PoolStatus(i) = "done"
    /\ pool' = <<>>
    /\ LET t == req.thread_id
           log == store[t]
           calls == log[Len(log)].tool_calls
       IN \E o \in [1..Len(calls) -> Outcomes] :
            LET results == [i \in 1..Len(calls) |-> RunTool(calls[i], o[i])]
                update == [i \in 1..Len(calls) |-> ToolMessage(results[i], calls[i].id, t)]
                newLog == add_messages(log, update)
            IN /\ steps' = steps + 1
               /\ IF \E i \in 1..Len(calls) : Raised(results[i])
                  THEN Finish(FALSE, "exception", "tool", store)
                  ELSE IF OutOfSteps(steps')
                  THEN Finish(FALSE, RecursionErrorText, "budget", SaveCheckpoint(t, newLog))
                  ELSE /\ store' = SaveCheckpoint(t, newLog)
                       /\ loop_state' = "AWAITING_MODEL"
                       /\ UNCHANGED <<response, exc, http, cli_out, turns, clean>>
    /\ UNCHANGED <<mode, scenario, alive, agent_executor, vector_store, sql_db, req,
                   llm_input, nextId, exchanges, len0, queued>>
    /\ UNCHANGED db_vars

Next ==
    \/ Startup
    \/ HealthCheck
    \/ \E m \in MessagesFor(scenario), t \in ThreadsFor(scenario) : ChatRequest(m, t)
    \/ \E m \in MessagesFor(scenario), t \in ThreadsFor(scenario) : SubmitWhileBusy(m, t)
    \/ \E line \in CliLines : CliLine(line)
    \/ AssistantStep
    \/ \E i \in 1..MaxCalls : StartCall(i)
    \/ \E i \in 1..MaxCalls : FinishCall(i)
    \/ ToolsStep

Spec == Init /\ [][Next]_vars

\* ------------------------------------------- the appointment tools by themselves
\* the days since setup_database.py ran on which the tools are called
MaxDay == 3

\* doctor_name arguments
DoctorNameArgs ==
    {<<>>, <<" ">>, <<"Harshin">>, <<" ", "Harshin", " ">>, <<"harshin">>, <<"Priya">>,
     <<"Dr.">>, <<"Smith">>, <<"%">>, <<"O", "'", "Brien">>, <<"'", "'">>}

ToolInit ==
    /\ mode = "api" /\ scenario = "tools" /\ alive = TRUE /\ agent_executor = "ready"
    /\ vector_store = "ok"
    /\ sql_db \in {"None", "ok"}
    /\ store = [t \in AllThreads |-> <<>>]
    /\ loop_state = "IDLE" /\ req = NoReq /\ steps = 0 /\ response = <<>> /\ exc = NoExc
    /\ http = NoHttp /\ cli_out = <<>> /\ llm_input = <<>> /\ nextId = 0 /\ exchanges = 0
    /\ turns = [t \in AllThreads |-> 0] /\ clean = [t \in AllThreads |-> TRUE]
    /\ len0 = 0 /\ queued = NoReq /\ pool = <<>>
    /\ today = 0 /\ tool_call = NoCall /\ tool_result = NoResult

\* the tool is invoked with doctor_name = name; the query runs against hospital.db
\* as setup_database.py wrote it
CallTool(nm, name, results) ==
    /\ tool_call' = [id |-> 0, name |-> nm, args |-> name, day |-> today]
    /\ \E result \in results :
          tool_result' = [text |-> RunTool(tool_call', OutcomeOf(result)),
                          rows |-> IF sql_db = "None" THEN <<>> ELSE result.rows]
    /\ UNCHANGED <<today, agent_vars>>

CallDoctorAppointments(name) == CallTool("get_doctor_appointments", name, DoctorQuery(name))

CallTodaysAppointments(name) == CallTool("get_todays_appointments", name, TodayQuery(name, today))

\* midnight passes
NextDay ==
    /\ today < MaxDay
    /\ today' = today + 1
    /\ UNCHANGED <<tool_call, tool_result, agent_vars>>

ToolNext ==
    \/ \E name \in DoctorNameArgs : CallDoctorAppointments(name)
    \/ \E name \in DoctorNameArgs : CallTodaysAppointments(name)
    \/ NextDay

ToolSpec == ToolInit /\ [][ToolNext]_vars

\* ------------------------------------------------------------------ claims
CurrentLog == store[req.thread_id]

IsFinalAnswer(m) == m.role = "assistant" /\ m.tool_calls = <<>>

\* the tool_calls of log[i] are resolved by the messages right behind it, one each
ResolvedAt(log, i) ==
    LET calls == log[i].tool_calls
        k == Len(calls)
    IN /\ i + k <= Len(log)
       /\ \A j \in 1..k : log[i + j].role = "tool_result"
       /\ \A c \in 1..k : Cardinality({j \in 1..k : log[i + j].tool_call_id = calls[c].id}) = 1

\* the tool_result log[p] answers exactly one earlier, still unresolved call
AnswersOne(log, p) ==
    Cardinality({i \in 1..(p - 1) :
                   /\ log[i].role = "assistant"
                   /\ p <= i + Len(log[i].tool_calls)
                   /\ \E c \in 1..Len(log[i].tool_calls) :
                        log[i].tool_calls[c].id = log[p].tool_call_id}) = 1

Paired(log) ==
    \A i \in 1..Len(log) :
        /\ log[i].role = "assistant" => ResolvedAt(log, i)
        /\ log[i].role = "tool_result" => AnswersOne(log, i)

\* C1: in every thread's log each assistant message with tool_calls, unless it is
\* the last message of the log, is followed at once by exactly one tool_result per
\* call_id, and every tool_result answers exactly one earlier call; in the list
\* handed to the model at an invocation every assistant message with tool_calls is
\* resolved that way.
C1_ToolCallsPaired ==
    /\ \A t \in AllThreads :
         \/ Paired(store[t])
         \/ /\ store[t] # <<>>
            /\ Last(store[t]).role = "assistant"
            /\ Paired(SubSeq(store[t], 1, Len(store[t]) - 1))
    /\ Paired(llm_input)

\* C2: the latest exchange is DONE exactly when the last message of its log is an
\* assistant message without tool_calls, and then run_agent returned that message's
\* content; while the last message is an assistant message with tool_calls the loop
\* is in the tools step, and the model is awaited only behind a user message or a
\* tool_result.
C2_DoneIffFinalAnswer ==
    loop_state # "IDLE" =>
        /\ loop_state = "DONE" <=> IsFinalAnswer(Last(CurrentLog))
        /\ loop_state = "DONE" => response = Last(CurrentLog).content
        /\ loop_state = "EXECUTING_TOOLS" =>
             (Last(CurrentLog).role = "assistant" /\ Last(CurrentLog).tool_calls # <<>>)
        /\ loop_state = "AWAITING_MODEL" => Last(CurrentLog).role \in {"user", "tool_result"}

C2_Witness ==
    /\ loop_state = "DONE" /\ steps = 3
    /\ \E i \in 1..Len(CurrentLog) : CurrentLog[i].role = "tool_result"

SettledCleanThread(t) == clean[t] /\ turns[t] >= 1 /\ ~(InFlight /\ req.thread_id = t)

C4_AppendOnly ==
    [][/\ \A t \in AllThreads : IsPrefix(store[t], store'[t])
       /\ loop_state' \in {"DONE", "FAILED"} => Len(store'[req'.thread_id]) > len0']_vars

C4_Witness == loop_state = "DONE" /\ len0 > 0 /\ Len(CurrentLog) > len0

\* C5: a step of an exchange on thread A changes no other thread's log, every
\* stored message of a thread was created by an exchange of that thread, and the
\* list handed to the model is the system prompt followed by A's log.
C5_ThreadIsolation ==
    [][/\ \A t \in AllThreads : t # req'.thread_id => store'[t] = store[t]
       /\ \A t \in AllThreads : \A i \in 1..Len(store'[t]) : store'[t][i].origin = t
       /\ llm_input' # llm_input => llm_input' = <<SystemMessage>> \o store[req.thread_id]]_vars

C5_Witness ==
    /\ store["default"] # <<>> /\ store["t2"] # <<>>
    /\ loop_state = "DONE" /\ req.thread_id = "t2"
    /\ llm_input = <<SystemMessage>> \o SubSeq(store["t2"], 1, Len(store["t2"]) - 1)

\* C6: a POST /chat exchange that failed is answered with a 500, never with a 200
\* whose status is "success".
C6_FailureIs500 ==
    (loop_state = "FAILED" /\ req.via = "api" /\ http.endpoint = "chat"
        /\ http.code \notin {400, 503})
    => (http.code = 500 /\ http.status # "success")

\* C7: the text returned for a failed exchange contains no part of the exception text.
C7_NoErrorTextLeak ==
    loop_state = "FAILED" =>
        /\ ~Contains(response, exc.text)
        /\ (req.via = "api" /\ http.endpoint = "chat" /\ http.code \notin {400, 503})
              => ~Contains(http.body, exc.text)
        /\ req.via = "cli" => ~Contains(cli_out, exc.text)

IsBlank(m) == Strip(m) = <<>>

\* C8 as stated: an empty or whitespace-only message to POST /chat is answered
\* with a 400 in every state of the service.
C8_Original == (http.endpoint = "chat" /\ IsBlank(http.message)) => http.code = 400

\* C8 as amended: an empty or whitespace-only message to POST /chat is answered
\* with a 400 when the agent is initialized and with a 503 before that; in both
\* cases no exchange begins, the model is not invoked and no log changes.
C8_BlankMessageRejected ==
    [][/\ (http' # http /\ http'.endpoint = "chat" /\ IsBlank(http'.message)) =>
            /\ http'.code = IF agent_executor = "None" THEN 503 ELSE 400
            /\ store' = store /\ llm_input' = llm_input /\ loop_state' = loop_state
            /\ req' = req
       /\ (req' # req /\ req'.via = "api") => ~IsBlank(req'.message)]_vars

C8_Witness ==
    /\ http.endpoint = "chat" /\ http.message = <<" ">> /\ http.code = 400
    /\ store["default"] # <<>>

\* C9: an invoke runs at most RecursionLimit node supersteps, it can always take
\* its next step while it is in flight, and it fails only because the model call
\* failed or because the step budget was used up.
C9_LoopBudget ==
    /\ steps <= RecursionLimit
    /\ InFlight =>
         /\ steps < RecursionLimit
         /\ ENABLED (AssistantStep \/ ToolsStep \/ \E i \in 1..MaxCalls : StartCall(i) \/ FinishCall(i))
    /\ loop_state = "FAILED" => exc.kind \in {"model", "budget"}

C9_Witness == loop_state = "FAILED" /\ exc.kind = "budget" /\ steps = RecursionLimit

SqlTools == {"get_doctor_appointments", "get_todays_appointments", "get_available_doctors"}

\* C10: the tools step never fails the exchange: it appends one tool_result per
\* call, in order, and goes back to the model; a call of an unregistered tool, of
\* the policy search without a vector store, or of a database tool without a
\* database yields a tool_result that carries error text.
C10_ToolErrorsAreData ==
    [][/\ exc'.kind # "tool"
       /\ (loop_state = "EXECUTING_TOOLS" /\ steps' # steps) =>
            LET log == CurrentLog
                calls == Last(log).tool_calls
                newLog == store'[req.thread_id]
            IN /\ loop_state' = "AWAITING_MODEL"
               /\ Len(newLog) = Len(log) + Len(calls)
               /\ \A j \in 1..Len(calls) :
                    LET m == newLog[Len(log) + j]
                    IN /\ m.role = "tool_result"
                       /\ m.tool_call_id = calls[j].id
                       /\ m.content # <<>> /\ ~Raised(m.content)
                       /\ (\/ calls[j].name \notin ToolNames
                           \/ calls[j].name = "search_hospital_policies" /\ vector_store = "None"
                           \/ calls[j].name \in SqlTools /\ sql_db = "None")
                          => m.content \in ErrorTexts]_vars

C10_Witness ==
    /\ loop_state = "AWAITING_MODEL"
    /\ Last(CurrentLog).role = "tool_result"
    /\ Last(CurrentLog).content = <<"Error searching hospital policies: ", "exception">>

C12_NotInitializedIs503 ==
    [][/\ (agent_executor = "None" /\ HealthCheck) =>
            (http'.endpoint = "health" /\ http'.code = 503)
       /\ (agent_executor = "None" /\ \E m \in ApiMessages, t \in Threads : ChatRequest(m, t)) =>
            (http'.endpoint = "chat" /\ http'.code = 503)
       /\ agent_executor = "None" =>
            /\ store' = store /\ llm_input' = llm_input
            /\ loop_state' = "IDLE" /\ req' = NoReq /\ exchanges' = 0
       /\ agent_executor = "ready" =>
            /\ agent_executor' = "ready"
            /\ http' # http => http'.code # 503]_vars

\* POST /chat with a proper message was answered 503 before the startup hook ran
C12_Witness ==
    /\ agent_executor = "None" /\ alive
    /\ http.endpoint = "chat" /\ http.code = 503 /\ http.message = <<"a">>
    /\ \A t \in AllThreads : store[t] = <<>>

CliReprompts ==
    /\ cli_out' = <<"Please enter a question or type 'quit' to exit.">>
    /\ alive' /\ store' = store /\ loop_state' = loop_state /\ req' = req
    /\ llm_input' = llm_input /\ exchanges' = exchanges

CliTerminates ==
    /\ ~alive' /\ store' = store /\ loop_state' = loop_state /\ req' = req
    /\ llm_input' = llm_input /\ exchanges' = exchanges

CliRunsExchange(line) ==
    /\ alive' /\ exchanges' = exchanges + 1 /\ loop_state' = "AWAITING_MODEL"
    /\ req'.via = "cli" /\ req'.thread_id = CliThread
    /\ store' = [store EXCEPT ![CliThread] = @ \o <<HumanMessage(line, CliThread)>>]

CliPrintsResult ==
    (req.via = "cli" /\ InFlight /\ loop_state' \in {"DONE", "FAILED"}) =>
        /\ cli_out' = <<"Assistant: ">> \o response'
        /\ alive' /\ req' = req
        /\ \A t \in Threads : store'[t] = <<>>

\* C13 as stated: in the CLI loop the line quit, exit or bye ends the loop without
\* an exchange, the empty line re-prompts without an exchange, and every other
\* line runs one exchange on "main_conversation" whose result is printed behind
\* "Assistant: ", after which the loop goes on, also when the exchange failed.
C13_Original ==
    [][/\ \A line \in CliLines :
            CliLine(line) =>
                IF line \in {<<w>> : w \in QuitWords} THEN CliTerminates
                ELSE IF line = <<>> THEN CliReprompts
                ELSE CliRunsExchange(line)
       /\ CliPrintsResult]_vars

\* C13 as amended: a line that is quit, exit or bye in any letter case ends the
\* loop without an exchange, an empty or whitespace-only line re-prompts without
\* an exchange, and every other line runs one exchange on "main_conversation"
\* with the line as typed, whose result is printed behind "Assistant: ", after
\* which the loop goes on, also when the exchange failed.
C13_CliLoop ==
    [][/\ \A line \in CliLines :
            CliLine(line) =>
                IF line \in {<<"quit">>, <<"exit">>, <<"bye">>, <<"QUIT">>} THEN CliTerminates
                ELSE IF line \in {<<>>, <<" ">>} THEN CliReprompts
                ELSE CliRunsExchange(line)
       /\ CliPrintsResult]_vars

\* a line with a leading blank ran an exchange that failed; its apology was
\* printed and the loop is still reading
C13_Witness ==
    /\ mode = "cli" /\ alive /\ loop_state = "FAILED"
    /\ req.message = <<" ", "a">> /\ cli_out = <<"Assistant: ">> \o response
    /\ store[CliThread][1] = HumanMessage(<<" ", "a">>, CliThread)

\* the rows of the day that pass the name filter of the query; a name that cannot
\* be written into the LIKE pattern is the name of no doctor
RowsOfDay(name, day) ==
    IF Strip(name) = <<>> THEN DateFilter(Joined, day)
    ELSE IF QuotesPaired(Strip(name)) THEN NameFilter(DateFilter(Joined, day), Strip(name))
    ELSE {}

\* C14: the result of get_todays_appointments is never empty and never carries
\* the text of a database exception, and when no appointment of the day passes
\* the name filter it is the no-appointments string.
C14_TodayNeverLeaksError ==
    (tool_call.name = "get_todays_appointments" /\ sql_db = "ok") =>
        /\ tool_result.text # <<>>
        /\ ~Contains(tool_result.text, "exception")
        /\ RowsOfDay(tool_call.args, tool_call.day) = {} =>
              tool_result.text = <<"No appointments scheduled for today">>

\* sub occurs in text as a run of consecutive tokens, letter case included
IsSubstring(sub, text) ==
    \E i \in 0..(Len(text) - Len(sub)) : SubSeq(text, i + 1, i + Len(sub)) = sub

\* C15: get_doctor_appointments(name) lists exactly the appointment rows whose
\* doctor name contains the stripped name as a case-sensitive substring, each
\* once, by date and by token within a date, under the appointments title; when
\* there is no such row it returns the no-appointments string.
C15_DoctorRowsExact ==
    (tool_call.name = "get_doctor_appointments" /\ sql_db = "ok") =>
        LET name == Strip(tool_call.args)
            want == {r \in Joined : IsSubstring(name, r.doctor_name)}
            rows == tool_result.rows
        IN /\ {rows[i] : i \in 1..Len(rows)} = want
           /\ Len(rows) = Cardinality(want)
           /\ \A i, j \in 1..Len(rows) :
                 i < j => \/ rows[i].date < rows[j].date
                          \/ rows[i].date = rows[j].date /\ rows[i].token <= rows[j].token
           /\ tool_result.text = IF want = {}
                                 THEN <<"No appointments found for doctor: ", name>>
                                 ELSE <<"Appointments for ", name, "rows">>

\* C16: the tool calls of one assistant message are executed one after another in
\* the listed order: a call is taken up only when every call listed before it has
\* returned; and the tools step appends their tool_results in the listed order
\* before the model is invoked again.
C16_SequentialExecution ==
    [][/\ \A j \in 1..MaxCalls :
            StartCall(j) => \A i \in 1..(j - 1) : PoolStatus(i) = "done"
       /\ (loop_state = "EXECUTING_TOOLS" /\ loop_state' = "AWAITING_MODEL") =>
            LET calls == Last(CurrentLog).tool_calls
                newLog == store'[req.thread_id]
            IN /\ Len(newLog) = Len(CurrentLog) + Len(calls)
               /\ \A j \in 1..Len(calls) :
                     newLog[Len(CurrentLog) + j].tool_call_id = calls[j].id
               /\ llm_input' = llm_input]_vars

NoSystem(log) == \A i \in 1..Len(log) : log[i].role # "system"

====
